---- MODULE Spec2Model ----
(***************************************************************************)
(* Model of webapp.py: the "Analyze Data" request of main, the record      *)
(* selection of fetch_user_data, the column mapping of                     *)
(* preprocess_user_data, the duration parser                               *)
(* convert_sleep_duration_to_float and make_prediction.                    *)
(*                                                                         *)
(* Representation.  A Python str is a sequence of one-character strings.   *)
(* A cell value is a record [t, s, n, d]: t = "str" carries the text s,    *)
(* t = "num" the number n/d, t = "na" the pandas missing value (None or    *)
(* NaN; no modelled code tells them apart).  The float expression          *)
(* hours + minutes / 60 of line 148 is carried as the fraction             *)
(* (60*hours + minutes)/60, so the float rounding of the division is not   *)
(* modelled.                                                               *)
(***************************************************************************)
EXTENDS Integers, Sequences, FiniteSets, TLC

\* ------------------------------------------------------------- values

Str(s) == [t |-> "str", s |-> s, n |-> 0, d |-> 1]
Num(n, d) == [t |-> "num", s |-> <<>>, n |-> n, d |-> d]
NA == [t |-> "na", s |-> <<>>, n |-> 0, d |-> 1]

\* ------------------------------------------------- text and the regex

DigitChars == <<"0", "1", "2", "3", "4", "5", "6", "7", "8", "9">>

IsDigit(c) == \E i \in 1..10 : DigitChars[i] = c

DigitVal(c) == (CHOOSE i \in 1..10 : DigitChars[i] = c) - 1

\* \s of the regular expressions (the whitespace the inputs here can hold)
IsSpace(c) == c \in {" ", "\t"}

\* int(text) of a run of decimal digits
RECURSIVE ParseInt(_)
ParseInt(ds) ==
    IF ds = <<>> THEN 0
    ELSE 10 * ParseInt(SubSeq(ds, 1, Len(ds) - 1)) + DigitVal(ds[Len(ds)])

\* the literal lit stands in s at position i
HasAt(s, i, lit) ==
    /\ i >= 1
    /\ i + Len(lit) - 1 <= Len(s)
    /\ \A k \in 1..Len(lit) : s[i + k - 1] = lit[k]

\* Python's  lit in s
Contains(s, lit) == \E i \in 1..(Len(s) + 1) : HasAt(s, i, lit)

\* number of characters \d+ takes from position i (greedy; 0: no match)
RECURSIVE DigitRun(_, _)
DigitRun(s, i) ==
    IF i <= Len(s) /\ IsDigit(s[i]) THEN 1 + DigitRun(s, i + 1) ELSE 0

\* \s* written as \s?: at most one whitespace character is skipped
SkipSpace_atMostOne(s, i) ==
    IF i <= Len(s) /\ IsSpace(s[i]) THEN i + 1 ELSE i

\* position after \s* from position i (greedy)
RECURSIVE SkipSpace(_, _)
SkipSpace(s, i) ==
    IF i <= Len(s) /\ IsSpace(s[i]) THEN SkipSpace(s, i + 1) ELSE i

HR == <<"h", "r">>
MIN == <<"m", "i", "n">>

NoMatch == [matched |-> FALSE, g1 |-> <<>>, g2 |-> <<>>]

\* re.match(r"(\d+)\s*hr\s*(\d+)\s*min", s): anchored at the start only
MatchHrMin(s) ==
    LET d1 == DigitRun(s, 1)
        i1 == SkipSpace(s, 1 + d1)
        i2 == SkipSpace(s, i1 + 2)
        d2 == DigitRun(s, i2)
        i3 == SkipSpace(s, i2 + d2)
    IN  IF d1 > 0 /\ HasAt(s, i1, HR) /\ d2 > 0 /\ HasAt(s, i3, MIN)
        THEN [matched |-> TRUE, g1 |-> SubSeq(s, 1, d1),
              g2 |-> SubSeq(s, i2, i2 + d2 - 1)]
        ELSE NoMatch

\* re.match(r"(\d+)\s*<unit>", s) for the unit hr or min
MatchUnit(s, unit) ==
    LET d1 == DigitRun(s, 1)
        i1 == SkipSpace(s, 1 + d1)
    IN  IF d1 > 0 /\ HasAt(s, i1, unit)
        THEN [matched |-> TRUE, g1 |-> SubSeq(s, 1, d1), g2 |-> <<>>]
        ELSE NoMatch

\* hours + minutes / 60
Hours(hours, minutes) == Num(60 * hours + minutes, 60)

\* convert_sleep_duration_to_float whose minutes are not divided by 60
convert_sleep_duration_to_float_nodiv(v) ==
    IF v.t # "str" THEN NA
    ELSE IF Contains(v.s, HR) /\ Contains(v.s, MIN)
         THEN LET m == MatchHrMin(v.s)
              IN  IF m.matched THEN Num(60 * (ParseInt(m.g1) + ParseInt(m.g2)), 60)
                  ELSE Hours(0, 0)
    ELSE IF Contains(v.s, HR)
         THEN LET m == MatchUnit(v.s, HR)
              IN  IF m.matched THEN Hours(ParseInt(m.g1), 0) ELSE NA
    ELSE IF Contains(v.s, MIN)
         THEN LET m == MatchUnit(v.s, MIN)
              IN  IF m.matched THEN Num(60 * ParseInt(m.g1), 60) ELSE NA
    ELSE Hours(0, 0)

\* convert_sleep_duration_to_float: the value returned.  NA is the None of
\* the except branch (line 151); a value that is not text makes
\* "'hr' in duration_str" raise TypeError, a None match makes .group raise.
convert_sleep_duration_to_float(v) ==
    IF v.t # "str" THEN NA
    ELSE IF Contains(v.s, HR) /\ Contains(v.s, MIN)
         THEN LET m == MatchHrMin(v.s)
              IN  IF m.matched THEN Hours(ParseInt(m.g1), ParseInt(m.g2))
                  ELSE Hours(0, 0)
    ELSE IF Contains(v.s, HR)
         THEN LET m == MatchUnit(v.s, HR)
              IN  IF m.matched THEN Hours(ParseInt(m.g1), 0) ELSE NA
    ELSE IF Contains(v.s, MIN)
         THEN LET m == MatchUnit(v.s, MIN)
              IN  IF m.matched THEN Hours(0, ParseInt(m.g1)) ELSE NA
    ELSE Hours(0, 0)

\* ------------------------------------------------------- data frames

\* A stored document: a dict, its fields in insertion order.
Field(rec, name) ==
    IF \E j \in 1..Len(rec.names) : rec.names[j] = name
    THEN rec.vals[CHOOSE j \in 1..Len(rec.names) : rec.names[j] = name]
    ELSE NA

HasField(rec, name) == \E j \in 1..Len(rec.names) : rec.names[j] = name

InSeq(x, seq) == \E j \in 1..Len(seq) : seq[j] = x

\* seq followed by the members of names it does not hold yet
RECURSIVE AppendNew(_, _)
AppendNew(seq, names) ==
    IF names = <<>> THEN seq
    ELSE AppendNew(IF InSeq(Head(names), seq) THEN seq ELSE Append(seq, Head(names)),
                   Tail(names))

\* the columns of pd.DataFrame(list of dicts): the keys in order of first
\* appearance
RECURSIVE Columns(_)
Columns(recs) ==
    IF recs = <<>> THEN <<>>
    ELSE AppendNew(Columns(SubSeq(recs, 1, Len(recs) - 1)), recs[Len(recs)].names)

\* pd.DataFrame(health_data): one row per document, a key a document lacks
\* is the missing value in its row
DataFrame(recs) ==
    LET cols == Columns(recs)
    IN  [cols |-> cols,
         rows |-> [i \in 1..Len(recs) |->
                     [j \in 1..Len(cols) |-> Field(recs[i], cols[j])]]]

column_mapping(name) ==
    CASE name = "heartRateAvg" -> "Heart_Rate_BPM"
      [] name = "oxygenAvg" -> "Oxygen_Saturation"
      [] name = "temperature" -> "Body_Temperature_Celsius"
      [] name = "totalSteps" -> "Physical_Activity_Steps"
      [] name = "sleepDuration" -> "Sleep_Duration_Hours"
      [] OTHER -> name

\* user_data.rename(columns=column_mapping): a new frame
Rename(frame) ==
    [cols |-> [j \in 1..Len(frame.cols) |-> column_mapping(frame.cols[j])],
     rows |-> frame.rows]

\* the feature list in the order of the target names as sorted text
features_sorted ==
    <<"Body_Temperature_Celsius", "Heart_Rate_BPM", "Oxygen_Saturation",
      "Physical_Activity_Steps", "Sleep_Duration_Hours">>

features ==
    <<"Heart_Rate_BPM", "Sleep_Duration_Hours", "Physical_Activity_Steps",
      "Oxygen_Saturation", "Body_Temperature_Celsius">>

\* the positions of the columns labelled label, ascending, from position j
RECURSIVE PositionsFrom(_, _, _)
PositionsFrom(cols, label, j) ==
    IF j > Len(cols) THEN <<>>
    ELSE (IF cols[j] = label THEN <<j>> ELSE <<>>) \o PositionsFrom(cols, label, j + 1)

\* the column positions frame[labels] takes: for each label in turn every
\* column that carries it (a label borne by two columns selects both)
RECURSIVE Positions(_, _)
Positions(cols, labels) ==
    IF labels = <<>> THEN <<>>
    ELSE PositionsFrom(cols, Head(labels), 1) \o Positions(cols, Tail(labels))

\* frame[labels] raises KeyError when a label is no column
KeyError(frame, labels) == \E k \in 1..Len(labels) : ~InSeq(labels[k], frame.cols)

\* frame[labels]: a new frame
Project(frame, labels) ==
    LET ps == Positions(frame.cols, labels)
    IN  [cols |-> [k \in 1..Len(ps) |-> frame.cols[ps[k]]],
         rows |-> [i \in 1..Len(frame.rows) |->
                     [k \in 1..Len(ps) |-> frame.rows[i][ps[k]]]]]

\* frame[label] = frame[label].apply(f), for a label one column carries
ApplySleep(frame) ==
    [cols |-> frame.cols,
     rows |-> [i \in 1..Len(frame.rows) |->
                 [j \in 1..Len(frame.cols) |->
                    IF frame.cols[j] = "Sleep_Duration_Hours"
                    THEN convert_sleep_duration_to_float(frame.rows[i][j])
                    ELSE frame.rows[i][j]]]]

EmptyFrame == [cols |-> <<>>, rows |-> <<>>]

\* preprocess_user_data: raised is the KeyError of line 118, frame the value
\* returned otherwise
preprocess_user_data(user_data) ==
    LET renamed == Rename(user_data)
    IN  IF KeyError(renamed, features)
        THEN [raised |-> TRUE, frame |-> EmptyFrame]
        ELSE [raised |-> FALSE, frame |-> ApplySleep(Project(renamed, features))]

\* preprocess_user_data writing the converted column into the caller's frame
CallerFrame_inplace(user_data) ==
    IF KeyError(Rename(user_data), features) THEN user_data
    ELSE [cols |-> user_data.cols,
          rows |-> [i \in 1..Len(user_data.rows) |->
                      [j \in 1..Len(user_data.cols) |->
                         IF user_data.cols[j] = "sleepDuration"
                         THEN convert_sleep_duration_to_float(user_data.rows[i][j])
                         ELSE user_data.rows[i][j]]]]

\* the caller's frame after preprocess_user_data(user_data): lines 111 and
\* 118 rebind the local name to new frames, line 121 assigns into the new one
CallerFrame(user_data) == user_data

\* ---------------------------------------------------------------- state

VARIABLES
    store,          \* the documents of db.dashboards (a set)
    pc,             \* where the request of main stands
    user_id,        \* st.text_input("Enter User ID")
    date,           \* st.date_input("Select date"), as a day number
    health_data,    \* fetch_user_data: the list the query returned
    df,             \* fetch_user_data: the frame it returns to main
    isNone,         \* fetch_user_data returned None
    preprocessed_data,  \* make_prediction: the frame handed to model.predict
    prediction,     \* make_prediction: the value it returned last
    attempt,        \* 1: make_prediction of line 85, 2: of line 209
    predictCalls,   \* number of calls of model.predict
    stages,         \* history: the stages entered, in order
    failures,       \* history: the stages that failed, in order
    ui,             \* what streamlit was told to show, in order
    escaped,        \* an exception left main
    p_case, p_in, p_out, p_pc,          \* a call of the duration parser
    m_recs, m_in, m_out, m_again, m_own, m_pc   \* calls of the column mapper

pipeVars ==
    <<store, pc, user_id, date, health_data, df, isNone, preprocessed_data,
      prediction, attempt, predictCalls, stages, failures, ui, escaped>>

parseVars == <<p_case, p_in, p_out, p_pc>>

mapVars == <<m_recs, m_in, m_out, m_again, m_own, m_pc>>

vars == <<pipeVars, parseVars, mapVars>>

\* --------------------------------------------- the duration parser alone

MaxH == 12
MaxM == 61

\* str(n) of a non-negative integer
RECURSIVE Dec(_)
Dec(n) == IF n < 10 THEN <<DigitChars[n + 1]>> ELSE Dec(n \div 10) \o <<DigitChars[(n % 10) + 1]>>

Gaps == {<<>>, <<" ">>, <<" ", " ">>, <<"\t">>}
HrSpellings == {<<"h", "r">>, <<"H", "R">>, <<"H", "r">>}
MinSpellings == {<<"m", "i", "n">>, <<"M", "I", "N">>, <<"M", "i", "n">>}

Garbage == <<"g", "a", "r", "b", "a", "g", "e">>
Misordered == <<"5", " ", "m", "i", "n", " ", "3", " ", "h", "r">>
UnitsOnly == <<"h", "r", " ", "m", "i", "n">>
Unrecognized == {Garbage, <<>>, Misordered, UnitsOnly}
OtherTexts ==
    Unrecognized \cup
    {<<"x", " ", "h", "r">>, <<"x", " ", "m", "i", "n">>,
     <<"6", ".", "5", " ", "h", "r">>,
     <<"6", " ", "h", "r", "s">>, <<"0", "6", " ", "h", "r">>}

Case(form, H, M, pre, ws1, hr, ws2, ws3, mn, post, raw) ==
    [form |-> form, H |-> H, M |-> M, pre |-> pre, ws1 |-> ws1, hr |-> hr,
     ws2 |-> ws2, ws3 |-> ws3, mn |-> mn, post |-> post, raw |-> raw]

Forms == {"hm", "h", "m"}

\* the texts "<H> hr <M> min", "<H> hr", "<M> min" as written in the docstring
CanonCases ==
    {Case(f, H, M, <<>>, <<" ">>, HR, <<" ">>, <<" ">>, MIN, <<>>, <<>>) :
        f \in Forms, H \in 0..MaxH, M \in 0..MaxM}

VarH == {0, 6}
VarM == {0, 30}

\* the same with other whitespace before, inside and after
SpacedCases ==
    {Case(f, H, M, pre, c[1], HR, c[2], c[3], MIN, post, <<>>) :
        f \in Forms, H \in VarH, M \in VarM, pre \in {<<>>, <<" ">>},
        c \in Gaps \X Gaps \X Gaps, post \in {<<>>, <<" ">>}}

\* the same with other letter case in the unit tokens
SpelledCases ==
    {Case(f, H, M, <<>>, <<" ">>, hr, <<" ">>, <<" ">>, mn, <<>>, <<>>) :
        f \in Forms, H \in VarH, M \in VarM, hr \in HrSpellings, mn \in MinSpellings}

RawCases ==
    {Case("raw", 0, 0, <<>>, <<>>, HR, <<>>, <<>>, MIN, <<>>, raw) : raw \in OtherTexts}

Cases == CanonCases \cup SpacedCases \cup SpelledCases \cup RawCases

Text(c) ==
    CASE c.form = "hm" ->
           c.pre \o Dec(c.H) \o c.ws1 \o c.hr \o c.ws2 \o Dec(c.M) \o c.ws3 \o c.mn \o c.post
      [] c.form = "h" -> c.pre \o Dec(c.H) \o c.ws1 \o c.hr \o c.post
      [] c.form = "m" -> c.pre \o Dec(c.M) \o c.ws3 \o c.mn \o c.post
      [] OTHER -> c.raw

\* the value H + M/60 the grammar of the form gives
Meant(c) ==
    CASE c.form = "hm" -> Num(60 * c.H + c.M, 60)
      [] c.form = "h" -> Num(60 * c.H, 60)
      [] c.form = "m" -> Num(c.M, 60)
      [] OTHER -> NA

IdleCase == Case("raw", 0, 0, <<>>, <<>>, HR, <<>>, <<>>, MIN, <<>>, <<>>)

ParseIdle ==
    /\ p_case = IdleCase
    /\ p_in = Str(<<>>)
    /\ p_out = NA
    /\ p_pc = "off"

\* one call convert_sleep_duration_to_float(p_in)
Convert ==
    /\ p_pc = "ready"
    /\ p_out' = convert_sleep_duration_to_float(p_in)
    /\ p_pc' = "done"
    /\ UNCHANGED <<p_case, p_in, pipeVars, mapVars>>

ParseInit ==
    /\ p_case \in Cases
    /\ p_in = Str(Text(p_case))
    /\ p_out = NA
    /\ p_pc = "ready"

\* ------------------------------------------------------- the documents

MaxRecords == 3
DayLen == 2

Good == <<"6", " ", "h", "r", " ", "3", "0", " ", "m", "i", "n">>
BadHr == <<"x", " ", "h", "r">>

\* the texts ObjectId() accepts
ValidIds == {"a1", "a2"}

ObjectId(text) == [t |-> "oid", s |-> <<text>>, n |-> 0, d |-> 1]

SourceNames ==
    <<"heartRateAvg", "oxygenAvg", "temperature", "totalSteps", "sleepDuration">>

\* a document of the collection: the five readings (shape "noOxy": without
\* oxygenAvg), the key and the time stamp, and in shape "clash" a further
\* field that bears the name of a model feature
Rec(key, t, shape, sleep) ==
    LET all == <<<<"_id", ObjectId(key)>>,
                 <<"heartRateAvg", Num(70 + t, 1)>>,
                 <<"oxygenAvg", Num(97, 1)>>,
                 <<"temperature", Num(366, 10)>>,
                 <<"totalSteps", Num(5000, 1)>>,
                 <<"sleepDuration", Str(sleep)>>,
                 <<"createdAt", Num(t, 1)>>,
                 <<"Oxygen_Saturation", Num(50, 1)>>>>
        Keep(f) == /\ (shape = "noOxy" => f[1] # "oxygenAvg")
                   /\ (shape # "clash" => f[1] # "Oxygen_Saturation")
        kept == SelectSeq(all, Keep)
    IN  [names |-> [j \in 1..Len(kept) |-> kept[j][1]],
         vals |-> [j \in 1..Len(kept) |-> kept[j][2]]]

Contents ==
    {<<"full", Good>>, <<"full", BadHr>>, <<"full", Garbage>>,
     <<"noOxy", Good>>, <<"clash", Good>>}

\* time stamps: before the second day, at its midnight, within it, at the
\* next midnight
Times == {DayLen - 1, DayLen, DayLen + 1, 2 * DayLen}

\* the stored documents are drawn from these: of every content within the
\* second day for the key a1, complete ones at every time for both keys
Pool ==
    {Rec("a1", t, c[1], c[2]) : t \in {DayLen, DayLen + 1}, c \in Contents}
    \cup {Rec(k, t, "full", Good) : k \in ValidIds, t \in Times}

RECURSIVE StoresUpTo(_)
StoresUpTo(n) ==
    IF n = 0 THEN {{}}
    ELSE LET prev == StoresUpTo(n - 1)
         IN  prev \cup {st \cup {r} : st \in prev, r \in Pool}

\* --------------------------------------------- the column mapper alone

MapPool == {Rec("a1", t, c[1], c[2]) : t \in {DayLen, DayLen + 1}, c \in Contents}

RECURSIVE SeqsUpTo(_, _)
SeqsUpTo(S, n) ==
    IF n = 0 THEN {<<>>}
    ELSE LET prev == SeqsUpTo(S, n - 1)
         IN  prev \cup {Append(q, r) : q \in prev, r \in S}

NoResult == [raised |-> FALSE, frame |-> EmptyFrame]

MapIdle ==
    /\ m_recs = <<>>
    /\ m_in = EmptyFrame
    /\ m_out = NoResult
    /\ m_again = NoResult
    /\ m_own = NoResult
    /\ m_pc = "off"

MapInit ==
    /\ m_recs \in SeqsUpTo(MapPool, MaxRecords) \ {<<>>}
    /\ m_in = DataFrame(m_recs)
    /\ m_out = NoResult
    /\ m_again = NoResult
    /\ m_own = NoResult
    /\ m_pc = "ready"

\* preprocess_user_data(m_in)
MapFirst ==
    /\ m_pc = "ready"
    /\ m_out' = preprocess_user_data(m_in)
    /\ m_in' = CallerFrame(m_in)
    /\ m_pc' = "once"
    /\ UNCHANGED <<m_recs, m_again, m_own, pipeVars, parseVars>>

\* preprocess_user_data(m_in) once more, on the frame the first call left
MapSame ==
    /\ m_pc = "once"
    /\ m_again' = preprocess_user_data(m_in)
    /\ m_in' = CallerFrame(m_in)
    /\ m_pc' = "twice"
    /\ UNCHANGED <<m_recs, m_out, m_own, pipeVars, parseVars>>

\* preprocess_user_data applied to the frame the first call returned
MapOwn ==
    /\ m_pc = "twice"
    /\ ~m_out.raised
    /\ m_own' = preprocess_user_data(m_out.frame)
    /\ m_pc' = "own"
    /\ UNCHANGED <<m_recs, m_in, m_out, m_again, pipeVars, parseVars>>

\* ------------------------------------------------------- the request

MaxScore == 1
Scores == 0..MaxScore

UserTexts == {"", "zz"} \cup ValidIds
Dates == {0, 1}

Ev(kind) == [kind |-> kind, val |-> NA]
ScoreEv(v) == [kind |-> "score", val |-> v]

PipeIdle ==
    /\ store = {}
    /\ pc = "off"
    /\ user_id = ""
    /\ date = 0
    /\ health_data = <<>>
    /\ df = EmptyFrame
    /\ isNone = FALSE
    /\ preprocessed_data = EmptyFrame
    /\ prediction = NA
    /\ attempt = 0
    /\ predictCalls = 0
    /\ stages = <<>>
    /\ failures = <<>>
    /\ ui = <<>>
    /\ escaped = FALSE

PipeInit ==
    /\ store \in StoresUpTo(MaxRecords)
    /\ pc = "idle"
    /\ user_id = ""
    /\ date = 0
    /\ health_data = <<>>
    /\ df = EmptyFrame
    /\ isNone = FALSE
    /\ preprocessed_data = EmptyFrame
    /\ prediction = NA
    /\ attempt = 0
    /\ predictCalls = 0
    /\ stages = <<>>
    /\ failures = <<>>
    /\ ui = <<>>
    /\ escaped = FALSE

\* the click on "Analyze Data" (lines 192-199): an empty text is answered
\* with a warning, a text ObjectId() rejects raises InvalidId out of main
Analyze ==
    /\ pc = "idle"
    /\ \E u \in UserTexts, dt \in Dates :
          /\ user_id' = u
          /\ date' = dt
          /\ IF u = ""
             THEN /\ ui' = Append(ui, Ev("warn_user_id"))
                  /\ pc' = "done"
                  /\ UNCHANGED escaped
             ELSE IF u \notin ValidIds
             THEN /\ escaped' = TRUE
                  /\ pc' = "done"
                  /\ UNCHANGED ui
             ELSE /\ pc' = "selecting"
                  /\ UNCHANGED <<ui, escaped>>
    /\ UNCHANGED <<store, health_data, df, isNone, preprocessed_data, prediction,
                   attempt, predictCalls, stages, failures, parseVars, mapVars>>

\* '$gte': start_date, '$lt': end_date, with both ends admitted
InWindow_closed(t, start_date, end_date) == start_date <= t /\ t <= end_date

\* '$gte': start_date, '$lt': end_date
InWindow(t, start_date, end_date) == start_date <= t /\ t < end_date

\* datetime.strptime(date.strftime("%Y-%m-%d"), "%Y-%m-%d"): midnight of the day
StartOf(dt) == dt * DayLen

\* start_date + timedelta(days=1)
EndOf(dt) == StartOf(dt) + DayLen

\* the documents the query of lines 64-70 matches
Matching(docs, key, dt) ==
    {r \in docs : /\ Field(r, "_id") = key
                  /\ InWindow(Field(r, "createdAt").n, StartOf(dt), EndOf(dt))}

\* .sort('createdAt', 1): the lists that hold each member of S once, in
\* ascending createdAt (documents of equal createdAt in either order)
Sorted(S) ==
    {q \in [1..Cardinality(S) -> S] :
        /\ \A i, j \in 1..Cardinality(S) : i # j => q[i] # q[j]
        /\ \A i, j \in 1..Cardinality(S) :
              i < j => Field(q[i], "createdAt").n <= Field(q[j], "createdAt").n}

\* "if not health_data" never taken
NoData_never(h) == FALSE

\* "if not health_data" (line 74)
NoData(h) == h = <<>>

\* fetch_user_data up to its call of make_prediction (lines 56-82).  The
\* query may raise (storage unreachable): line 95 catches it, fetch returns
\* None and main reports "No data available" (line 218).
Selecting ==
    /\ pc = "selecting"
    /\ stages' = Append(stages, "Selecting")
    /\ \/ /\ ui' = ui \o <<Ev("fetching"), Ev("error_fetching"), Ev("no_data_available")>>
          /\ failures' = Append(failures, "Selecting")
          /\ isNone' = TRUE
          /\ pc' = "done"
          /\ UNCHANGED <<health_data, df, attempt>>
       \/ \E h \in Sorted(Matching(store, ObjectId(user_id), date)) :
             /\ health_data' = h
             /\ IF NoData(h)
                THEN /\ ui' = ui \o <<Ev("fetching"), Ev("no_data_found"),
                                      Ev("no_data_available")>>
                     /\ isNone' = TRUE
                     /\ pc' = "done"
                     /\ UNCHANGED <<df, attempt>>
                ELSE /\ ui' = ui \o <<Ev("fetching"), Ev("found"), Ev("converted")>>
                     /\ df' = DataFrame(h)
                     /\ attempt' = 1
                     /\ pc' = "mapping"
                     /\ UNCHANGED isNone
             /\ UNCHANGED failures
    /\ UNCHANGED <<store, user_id, date, preprocessed_data, prediction,
                   predictCalls, escaped, parseVars, mapVars>>

\* make_prediction entering preprocess_user_data: rename and selection
\* (lines 102-118).  The KeyError of line 118 is caught at line 164.
Mapping ==
    /\ pc = "mapping"
    /\ stages' = Append(stages, "Mapping")
    /\ IF KeyError(Rename(df), features)
       THEN /\ ui' = Append(ui, Ev("error_prediction"))
            /\ failures' = Append(failures, "Mapping")
            /\ prediction' = NA
            /\ pc' = "returned"
            /\ UNCHANGED preprocessed_data
       ELSE /\ preprocessed_data' = Project(Rename(df), features)
            /\ pc' = "parsing"
            /\ UNCHANGED <<ui, failures, prediction>>
    /\ UNCHANGED <<store, user_id, date, health_data, df, isNone, attempt,
                   predictCalls, escaped, parseVars, mapVars>>

\* the cells of the sleep column the conversion answered with None
FailedCells(frame) ==
    {i \in 1..Len(frame.rows) :
        \E j \in 1..Len(frame.cols) :
            /\ frame.cols[j] = "Sleep_Duration_Hours"
            /\ convert_sleep_duration_to_float(frame.rows[i][j]) = NA}

\* line 121: the conversion of every cell of the sleep column; a cell that
\* fails is reported (line 150) and becomes None, and the call goes on
ParsingDurations ==
    /\ pc = "parsing"
    /\ stages' = Append(stages, "ParsingDurations")
    /\ preprocessed_data' = ApplySleep(preprocessed_data)
    /\ df' = CallerFrame(df)
    /\ ui' = ui \o [k \in 1..Cardinality(FailedCells(preprocessed_data)) |->
                       Ev("error_converting")]
    /\ failures' = IF FailedCells(preprocessed_data) # {}
                   THEN Append(failures, "ParsingDurations")
                   ELSE failures
    /\ pc' = "invoking"
    /\ UNCHANGED <<store, user_id, date, health_data, isNone, prediction, attempt,
                   predictCalls, escaped, parseVars, mapVars>>

\* line 160: model.predict(preprocessed_data)[0].  The model is opaque: it
\* raises (caught at line 164) or answers with a score.
Invoking ==
    /\ pc = "invoking"
    /\ stages' = Append(stages, "Invoking")
    /\ predictCalls' = predictCalls + 1
    /\ \/ /\ ui' = Append(ui, Ev("error_prediction"))
          /\ failures' = Append(failures, "Invoking")
          /\ prediction' = NA
       \/ \E sc \in Scores :
             /\ prediction' = Num(sc, 1)
             /\ UNCHANGED <<ui, failures>>
    /\ pc' = "returned"
    /\ UNCHANGED <<store, user_id, date, health_data, df, isNone, preprocessed_data,
                   attempt, escaped, parseVars, mapVars>>

\* make_prediction returns to fetch_user_data (lines 87-93), which returns
\* the frame to main; the frame is not None, so main shows it and calls
\* make_prediction itself (lines 201-209)
ReturnToFetch ==
    /\ pc = "returned"
    /\ attempt = 1
    /\ ui' = ui \o <<IF prediction # NA THEN ScoreEv(prediction)
                                         ELSE Ev("prediction_failed"),
                      Ev("raw_data"), Ev("making_prediction")>>
    /\ attempt' = 2
    /\ pc' = "mapping"
    /\ UNCHANGED <<store, user_id, date, health_data, df, isNone, preprocessed_data,
                   prediction, predictCalls, stages, failures, escaped,
                   parseVars, mapVars>>

\* make_prediction returns to main (lines 212-216): formatting None raises
\* TypeError, caught at line 215
ReturnToMain ==
    /\ pc = "returned"
    /\ attempt = 2
    /\ ui' = Append(ui, IF prediction # NA THEN ScoreEv(prediction)
                                            ELSE Ev("error_prediction"))
    /\ pc' = "done"
    /\ UNCHANGED <<store, user_id, date, health_data, df, isNone, preprocessed_data,
                   prediction, attempt, predictCalls, stages, failures, escaped,
                   parseVars, mapVars>>

\* ------------------------------------------------------ specifications

Init == PipeInit /\ ParseIdle /\ MapIdle

Next ==
    \/ Analyze
    \/ Selecting
    \/ Mapping
    \/ ParsingDurations
    \/ Invoking
    \/ ReturnToFetch
    \/ ReturnToMain

\* the request of main over a stored collection
Spec == Init /\ [][Next]_vars

InitParse == PipeIdle /\ ParseInit /\ MapIdle

ParseNext == Convert

\* calls of convert_sleep_duration_to_float on texts
SpecParse == InitParse /\ [][ParseNext]_vars

MapNext == MapFirst \/ MapSame \/ MapOwn

InitMap == PipeIdle /\ ParseIdle /\ MapInit

\* calls of preprocess_user_data on frames
SpecMap == InitMap /\ [][MapNext]_vars

\* ------------------------------------------- the duration parser: claims

Converted == p_pc = "done"

\* the text is one of the three forms, lower-case units, digits first,
\* nothing after, at most whitespace between a number and its unit
Plain(c) ==
    /\ c.form \in Forms
    /\ c.pre = <<>> /\ c.post = <<>>
    /\ c.hr = HR /\ c.mn = MIN
    /\ c.ws2 = <<" ">>

\* the unit tokens the text of the case holds are spelled hr and min
LowerCase(c) ==
    /\ (c.form \in {"hm", "h"} => c.hr = HR)
    /\ (c.form \in {"hm", "m"} => c.mn = MIN)

\* C1: a text that matches none of the three forms ("garbage", the empty
\* text, a text with hr and min out of form) is answered with a parse
\* failure, never with the number 0.
C1_UnparsableFails ==
    (Converted /\ p_in.s \in Unrecognized) => p_out = NA

\* C5: on "<H> hr <M> min" the result is H + M/60, on "<H> hr" it is H, on
\* "<M> min" it is M/60, that is (60*H + M)/60, whatever H >= 0 and M >= 0
\* (M of 60 and more included) and whatever the whitespace between a number
\* and its unit.
C5_ExactHours ==
    (Converted /\ Plain(p_case)) =>
        p_out = (CASE p_case.form = "hm" -> Num(60 * p_case.H + p_case.M, 60)
                   [] p_case.form = "h" -> Num(60 * p_case.H, 60)
                   [] p_case.form = "m" -> Num(p_case.M, 60))

C5_Witness ==
    /\ Converted /\ Plain(p_case)
    /\ p_case.form = "hm" /\ p_case.H = 6 /\ p_case.M = 60
    /\ p_in = Str(<<"6", " ", "h", "r", " ", "6", "0", " ", "m", "i", "n">>)
    /\ p_out = Num(420, 60)

\* C9 as stated: a text that differs from a canonical one in the letter case
\* of the unit tokens or in leading, trailing or inner whitespace is
\* converted to the same H + M/60.
C9_CaseAndSpaceTolerant ==
    (Converted /\ p_case.form \in Forms) => p_out = Meant(p_case)

\* C9 as amended: whitespace between the tokens (none, one or more
\* characters) and after the text does not change the result H + M/60; the
\* unit tokens are matched in lower case only and the number must open the
\* text: with another letter case or with leading whitespace the result is
\* 0, the hours alone or a failure.
C9_InnerSpaceTolerant ==
    (Converted /\ p_case.form \in Forms) =>
        IF LowerCase(p_case) /\ p_case.pre = <<>>
        THEN p_out = Meant(p_case)
        ELSE p_out \in {Num(0, 60), Num(60 * p_case.H, 60), NA}

C9_Witness ==
    /\ Converted
    /\ p_case.form = "hm" /\ p_case.H = 6 /\ p_case.M = 30
    /\ p_case.pre = <<>> /\ p_case.post = <<" ">>
    /\ p_case.ws1 = <<" ", " ">> /\ p_case.ws2 = <<>> /\ p_case.ws3 = <<"\t">>
    /\ p_out = Num(390, 60)

\* --------------------------------------------- the column mapper: claims

\* the document carries the five source fields
Complete(rec) == \A k \in 1..Len(SourceNames) : HasField(rec, SourceNames[k])

\* no field of the document bears the name of a model feature
NoClash(rec) == \A j \in 1..Len(rec.names) : ~InSeq(rec.names[j], features)

\* the feature vector the claim ascribes to a document
Vector(rec) ==
    <<Field(rec, "heartRateAvg"),
      convert_sleep_duration_to_float(Field(rec, "sleepDuration")),
      Field(rec, "totalSteps"), Field(rec, "oxygenAvg"), Field(rec, "temperature")>>

FiveColumns ==
    <<"Heart_Rate_BPM", "Sleep_Duration_Hours", "Physical_Activity_Steps",
      "Oxygen_Saturation", "Body_Temperature_Celsius">>

Projected ==
    /\ ~m_out.raised
    /\ m_out.frame.cols = FiveColumns
    /\ Len(m_out.frame.rows) = Len(m_recs)
    /\ \A i \in 1..Len(m_recs) : m_out.frame.rows[i] = Vector(m_recs[i])

\* C8 as stated: for documents that carry the five source fields plus
\* arbitrary other fields, the output has one vector per document, in input
\* order, of exactly the five features in the fixed order, every other
\* field dropped.
C8_ExactProjection ==
    (m_pc # "ready" /\ \A i \in 1..Len(m_recs) : Complete(m_recs[i])) => Projected

\* C8 as amended: the same for documents none of whose other fields bears
\* the name of one of the five features (such a field is kept as a sixth
\* column beside the renamed one).
C8_ProjectionWithoutClash ==
    (m_pc # "ready" /\ \A i \in 1..Len(m_recs) :
                          Complete(m_recs[i]) /\ NoClash(m_recs[i])) => Projected

C8_Witness ==
    /\ m_pc # "ready"
    /\ m_recs = <<Rec("a1", DayLen, "full", Good), Rec("a1", DayLen + 1, "full", BadHr)>>
    /\ m_out.frame.rows[1] =
         <<Num(70 + DayLen, 1), Num(390, 60), Num(5000, 1), Num(97, 1), Num(366, 10)>>
    /\ m_out.frame.rows[2] =
         <<Num(71 + DayLen, 1), NA, Num(5000, 1), Num(97, 1), Num(366, 10)>>

\* a valid input of the mapper: complete documents without a clashing
\* field, whose duration text is converted to a number
Valid(recs) ==
    \A i \in 1..Len(recs) :
        /\ Complete(recs[i]) /\ NoClash(recs[i])
        /\ convert_sleep_duration_to_float(Field(recs[i], "sleepDuration")) # NA

\* C10 as stated: the mapper leaves its input unchanged, gives equal
\* outputs on the same input, and applied to its own output gives that
\* output again.
C10_Idempotent ==
    (m_pc = "own" /\ Valid(m_recs)) =>
        /\ m_in = DataFrame(m_recs)
        /\ m_again = m_out
        /\ m_own = m_out

\* C10 as amended: the mapper leaves its input unchanged and gives equal
\* outputs on the same input; applied to its own output it does not raise
\* and keeps the columns and the four other features, but every
\* Sleep_Duration_Hours becomes None (the conversion of a float fails), so
\* the result differs from that output.
C10_PureNotIdempotent ==
    Valid(m_recs) =>
        /\ m_in = DataFrame(m_recs)
        /\ m_pc \in {"twice", "own"} => m_again = m_out
        /\ m_pc = "own" =>
              /\ ~m_own.raised
              /\ m_own.frame.cols = m_out.frame.cols
              /\ Len(m_own.frame.rows) = Len(m_out.frame.rows)
              /\ \A i \in 1..Len(m_out.frame.rows) :
                    \A j \in 1..Len(m_out.frame.cols) :
                        IF m_out.frame.cols[j] = "Sleep_Duration_Hours"
                        THEN /\ m_own.frame.rows[i][j] = NA
                             /\ m_out.frame.rows[i][j] # NA
                        ELSE m_own.frame.rows[i][j] = m_out.frame.rows[i][j]

C10_Witness ==
    /\ m_pc = "own" /\ Valid(m_recs) /\ Len(m_recs) = 2
    /\ m_out.frame.rows[1][2] = Num(390, 60)
    /\ m_own.frame.rows[1][2] = NA
    /\ m_again = m_out

\* ------------------------------------------------- the request: claims

\* the document bears the key and is stamped within the day dt:
\* start <= createdAt < start + 1 day, start the midnight of dt
InDay(r, key, dt) ==
    /\ Field(r, "_id") = ObjectId(key)
    /\ dt * DayLen <= Field(r, "createdAt").n
    /\ Field(r, "createdAt").n < dt * DayLen + DayLen

\* the query was made and answered
Selected == stages # <<>> /\ ~InSeq("Selecting", failures)

Occurrences(name, seq) == Cardinality({j \in 1..Len(seq) : seq[j] = name})

StageOrder == <<"Selecting", "Mapping", "ParsingDurations", "Invoking">>

\* C2: a request whose day window holds a matching record has called
\* model.predict exactly once when it ends, and has entered no stage twice
\* (stated for the requests in which no stage fails).
C2_PredictOnce ==
    (pc = "done" /\ Selected /\ health_data # <<>> /\ failures = <<>>) =>
        /\ predictCalls = 1
        /\ \A k \in 1..Len(StageOrder) : Occurrences(StageOrder[k], stages) <= 1

\* C3: when a selected record lacks oxygenAvg (alone or in a batch whose
\* other records carry it) the mapping fails and the request ends without
\* a call of model.predict.
C3_MissingOxygenAborts ==
    (/\ pc = "done" /\ Selected
     /\ \E i \in 1..Len(health_data) : ~HasField(health_data[i], "oxygenAvg")) =>
        /\ predictCalls = 0
        /\ InSeq("Mapping", failures)

\* C4: the stages run in the order Selecting, Mapping, ParsingDurations,
\* Invoking, and a failed stage ends the request: the stage that failed is
\* the last one entered and the only one that failed.
C4_FailureTerminates ==
    /\ Len(stages) <= Len(StageOrder)
    /\ \A k \in 1..Len(stages) : k <= Len(StageOrder) => stages[k] = StageOrder[k]
    /\ failures # <<>> => failures = <<stages[Len(stages)]>>

C7_WindowAndOrder ==
    Selected =>
        /\ {health_data[k] : k \in 1..Len(health_data)} =
             {r \in store : InDay(r, user_id, date)}
        /\ Len(health_data) = Cardinality({r \in store : InDay(r, user_id, date)})
        /\ \A i, j \in 1..Len(health_data) :
              i < j => Field(health_data[i], "createdAt").n
                         <= Field(health_data[j], "createdAt").n

C7_Witness ==
    /\ Selected /\ user_id = "a1" /\ date = 1
    /\ Len(health_data) = 2
    /\ Field(health_data[1], "createdAt").n = DayLen
    /\ Field(health_data[2], "createdAt").n = DayLen + 1
    /\ \E r \in store : Field(r, "_id") = ObjectId("a1") /\ Field(r, "createdAt").n = 2 * DayLen

====
